---- MODULE Spec2Model ----
(***************************************************************************)
(* Model of tools/validators/isr_safety.py, the ISR safety validator.      *)
(*                                                                         *)
(* Source text is modelled as a sequence of lexical tokens.  Every token   *)
(* stands for a piece of C text none of the program's regular expressions  *)
(* looks inside: a newline, a brace, a comment marker, a whole function    *)
(* signature up to its first parameter type, a call site `name(`.          *)
(* Positions are 1-based indices into the token sequence; Python's         *)
(* 0-based offset p is the number of tokens that precede the position.     *)
(***************************************************************************)
EXTENDS Integers, Sequences, FiniteSets, TLC

VARIABLES
    pc,          \* control point of the run
    optContent,  \* --check-content option: a source text, <<>> when absent or empty
    optTarget,   \* TARGET argument: "none", "file", "dir" or "missing"
    dbExists,    \* forbidden_calls.txt exists beside the script
    db,          \* the lines of forbidden_calls.txt
    files,       \* the files the run would visit, in visit order
    idx,         \* number of files check_directory has taken from its iterator
    code,        \* source text of the unit being checked
    filename,    \* logical name of the unit being checked
    forbidden,   \* rule map of the current check_content call
    callbacks,   \* spans of the current check_content call
    violations,  \* violations collected so far
    loads,       \* number of calls of load_forbidden_calls so far
    scanned,     \* number of units check_content has scanned completely
    exitCode     \* process exit status, -1 while running

vars == <<pc, optContent, optTarget, dbExists, db, files, idx, code, filename,
          forbidden, callbacks, violations, loads, scanned, exitCode>>

----------------------------------------------------------------------------
(* Tokens of C source text *)

NL   == [k |-> "nl"]       \* "\n"
LB   == [k |-> "{"]
RB   == [k |-> "}"]
SEMI == [k |-> ";"]
WS   == [k |-> "ws"]       \* blanks or tabs
LC   == [k |-> "//"]       \* line-comment marker
BO   == [k |-> "/*"]       \* block-comment opener
BC   == [k |-> "*/"]       \* block-comment closer

\* A function signature from its qualifiers to the first parameter type:
\* [static ][pascal ]<ret> <base><suffix>(<param>
Sig(st, pa, ret, base, suffix, param) ==
    [k |-> "sig", static |-> st, pascal |-> pa, ret |-> ret,
     base |-> base, suffix |-> suffix, param |-> param]

\* A call site: identifier `id` at an identifier boundary, then "("
Call(id) == [k |-> "call", id |-> id]

\* An identifier spelled pre + id + post, with no parenthesis after it, and
\* an opening parenthesis; neighbouring tokens are apart by white space
Word(pre, id, post) == [k |-> "word", pre |-> pre, id |-> id, post |-> post]
LP == [k |-> "("]

\* The identifier a signature declares (match.group(1))
FuncName(tok) == <<tok.base, tok.suffix>>

----------------------------------------------------------------------------
(* find_callback_functions *)

SuffixPattern(sfx) == [conv |-> "suffix", suffix |-> sfx, param |-> ""]
SignaturePattern(prm) == [conv |-> "signature", suffix |-> "", param |-> prm]

\* The pattern table, in the order the code tries it
patterns ==
    << SuffixPattern("_asr"),
       SuffixPattern("_notifier"),
       SuffixPattern("_completion"),
       SuffixPattern("_callback"),
       SuffixPattern("_event"),
       SignaturePattern("StreamPtr"),
       SignaturePattern("void*,OTEventCode"),
       SignaturePattern("DSPPBPtr"),
       SignaturePattern("TPCCB") >>

\* re.match of one pattern at one token.  The suffix patterns take an optional
\* static, an optional pascal, void or OSErr, and a name that ends in the
\* suffix; the signature patterns take an optional static, pascal void, any
\* name, and the first parameter type.
PatternMatches(p, tok) ==
    /\ tok.k = "sig"
    /\ IF p.conv = "suffix"
       THEN /\ tok.ret \in {"void", "OSErr"}
            /\ tok.base # ""
            /\ tok.suffix = p.suffix
       ELSE /\ tok.pascal
            /\ tok.ret = "void"
            /\ tok.base # ""
            /\ tok.param = p.param

\* code[:n].count("\n")
RECURSIVE CountNL(_, _)
CountNL(text, n) ==
    IF n = 0 THEN 0
    ELSE CountNL(text, n - 1) + (IF text[n] = NL THEN 1 ELSE 0)

\* code.find("{", pos): the first "{" at or after position pos, 0 when none
RECURSIVE FindBrace(_, _)
FindBrace(text, pos) ==
    IF pos > Len(text) THEN 0
    ELSE IF text[pos] = LB THEN pos
    ELSE FindBrace(text, pos + 1)

\* Mutant of BraceScan: a scan that stops at the first "}", blind to nesting
RECURSIVE BraceScan_Flat(_, _, _)
BraceScan_Flat(text, brace_count, func_end) ==
    IF brace_count > 0 /\ func_end < Len(text)
    THEN BraceScan_Flat(text,
                        IF text[func_end + 1] = RB THEN brace_count - 1
                        ELSE brace_count,
                        func_end + 1)
    ELSE func_end

\* The while loop: func_end is Python's offset, the token it reads is
\* text[func_end + 1]
RECURSIVE BraceScan(_, _, _)
BraceScan(text, brace_count, func_end) ==
    IF brace_count > 0 /\ func_end < Len(text)
    THEN BraceScan(text,
                   IF text[func_end + 1] = LB THEN brace_count + 1
                   ELSE IF text[func_end + 1] = RB THEN brace_count - 1
                   ELSE brace_count,
                   func_end + 1)
    ELSE func_end

\* func_end for a body whose "{" is at position func_start
FuncEnd(text, func_start) == BraceScan(text, 1, func_start)

\* Mutant of MatchSpan: the end line counted one past the line of func_end
MatchSpan_EndPastLine(text, pos) ==
    [name       |-> FuncName(text[pos]),
     start_line |-> CountNL(text, pos - 1) + 1,
     end_line   |-> CountNL(text, FuncEnd(text, FindBrace(text, pos))) + 2]

\* The tuple appended for a match at position pos
MatchSpan(text, pos) ==
    [name       |-> FuncName(text[pos]),
     start_line |-> CountNL(text, pos - 1) + 1,
     end_line   |-> CountNL(text, FuncEnd(text, FindBrace(text, pos))) + 1]

\* The inner for loop: the matches of one pattern from position pos on, in
\* text order, without those after which no "{" is found
RECURSIVE PatternSpans(_, _, _)
PatternSpans(text, p, pos) ==
    IF pos > Len(text) THEN <<>>
    ELSE IF PatternMatches(p, text[pos]) /\ FindBrace(text, pos) # 0
    THEN <<MatchSpan(text, pos)>> \o PatternSpans(text, p, pos + 1)
    ELSE PatternSpans(text, p, pos + 1)

\* Mutant of AllSpans: the pattern table walked from its end
RECURSIVE AllSpans_Reversed(_, _)
AllSpans_Reversed(text, i) ==
    IF i > Len(patterns) THEN <<>>
    ELSE AllSpans_Reversed(text, i + 1) \o PatternSpans(text, patterns[i], 1)

\* The outer for loop: the list `callbacks` after patterns i..9
RECURSIVE AllSpans(_, _)
AllSpans(text, i) ==
    IF i > Len(patterns) THEN <<>>
    ELSE PatternSpans(text, patterns[i], 1) \o AllSpans(text, i + 1)

\* Mutant of unique: nothing is removed
unique_None(cbs, seen) == cbs

\* Mutant of unique: of the tuples of one name the last is kept
RECURSIVE unique_KeepsLast(_, _)
unique_KeepsLast(cbs, seen) ==
    IF cbs = <<>> THEN <<>>
    ELSE IF \E n \in 2..Len(cbs) : cbs[n].name = Head(cbs).name
    THEN unique_KeepsLast(Tail(cbs), seen)
    ELSE <<Head(cbs)>> \o unique_KeepsLast(Tail(cbs), seen)

\* Remove duplicates: keep a tuple when its name is not in `seen`
RECURSIVE unique(_, _)
unique(cbs, seen) ==
    IF cbs = <<>> THEN <<>>
    ELSE IF Head(cbs).name \in seen
    THEN unique(Tail(cbs), seen)
    ELSE <<Head(cbs)>> \o unique(Tail(cbs), seen \cup {Head(cbs).name})

find_callback_functions(text) == unique(AllSpans(text, 1), {})

----------------------------------------------------------------------------
(* load_forbidden_calls *)

\* A line of forbidden_calls.txt is a sequence of the tokens " " (blanks),
\* "#", "|" and words; between two "|" there is at most one word, so the
\* text of a field is that word, or "" for an empty field.

\* line.strip()
RECURSIVE LStrip(_)
LStrip(line) ==
    IF line # <<>> /\ Head(line) = " " THEN LStrip(Tail(line)) ELSE line

RECURSIVE RStrip(_)
RStrip(line) ==
    IF line # <<>> /\ line[Len(line)] = " "
    THEN RStrip(SubSeq(line, 1, Len(line) - 1))
    ELSE line

Strip(line) == RStrip(LStrip(line))

\* line.split("|"): the fields between the delimiters, always at least one
RECURSIVE SplitBar(_, _)
SplitBar(line, cur) ==
    IF line = <<>> THEN <<cur>>
    ELSE IF Head(line) = "|" THEN <<cur>> \o SplitBar(Tail(line), <<>>)
    ELSE SplitBar(Tail(line), Append(cur, Head(line)))

FieldText(part) == IF part = <<>> THEN "" ELSE part[1]

ForbiddenCall(name, category, reason) ==
    [name |-> name, category |-> category, reason |-> reason]

\* Mutant of DictSet: an assignment to a key the dict holds is dropped
RECURSIVE DictSet_KeepsFirst(_, _)
DictSet_KeepsFirst(dict, entry) ==
    IF dict = <<>> THEN <<entry>>
    ELSE IF Head(dict).name = entry.name THEN dict
    ELSE <<Head(dict)>> \o DictSet_KeepsFirst(Tail(dict), entry)

\* forbidden[name] = ...: a dict keeps the position of a key it already holds
RECURSIVE DictSet(_, _)
DictSet(dict, entry) ==
    IF dict = <<>> THEN <<entry>>
    ELSE IF Head(dict).name = entry.name THEN <<entry>> \o Tail(dict)
    ELSE <<Head(dict)>> \o DictSet(Tail(dict), entry)

\* Mutant of LoadLine: only lines of fewer than three fields are skipped
LoadLine_AtLeastThree(dict, raw) ==
    LET line  == Strip(raw)
        parts == SplitBar(line, <<>>)
    IN  IF line = <<>> \/ Head(line) = "#" THEN dict
        ELSE IF Len(parts) < 3 THEN dict
        ELSE DictSet(dict, ForbiddenCall(FieldText(parts[1]),
                                         FieldText(parts[2]),
                                         FieldText(parts[3])))

\* The body of the for loop over the lines of the file
LoadLine(dict, raw) ==
    LET line  == Strip(raw)
        parts == SplitBar(line, <<>>)
    IN  IF line = <<>> \/ Head(line) = "#" THEN dict
        ELSE IF Len(parts) # 3 THEN dict
        ELSE DictSet(dict, ForbiddenCall(FieldText(parts[1]),
                                         FieldText(parts[2]),
                                         FieldText(parts[3])))

RECURSIVE LoadLines(_, _)
LoadLines(dict, f) ==
    IF f = <<>> THEN dict
    ELSE LoadLines(LoadLine(dict, Head(f)), Tail(f))

\* The rule map of a database that exists, as the sequence of its items
load_forbidden_calls(f) == LoadLines(<<>>, f)

----------------------------------------------------------------------------
(* check_function_for_violations *)

\* code.split("\n")
RECURSIVE SplitLines(_, _)
SplitLines(text, cur) ==
    IF text = <<>> THEN <<cur>>
    ELSE IF Head(text) = NL THEN <<cur>> \o SplitLines(Tail(text), <<>>)
    ELSE SplitLines(Tail(text), Append(cur, Head(text)))

\* Mutant of Slice: lines[a + 1:b], the signature line left out
Slice_DropsFirst(lines, a, b) ==
    LET hi == IF b > Len(lines) THEN Len(lines) ELSE b
    IN  IF a + 1 >= hi THEN <<>> ELSE SubSeq(lines, a + 2, hi)

\* lines[a:b] for 0 <= a: a slice never reaches past the list
Slice(lines, a, b) ==
    LET hi == IF b > Len(lines) THEN Len(lines) ELSE b
    IN  IF a >= hi THEN <<>> ELSE SubSeq(lines, a + 1, hi)

\* line.split("//")[0]: what precedes the first line-comment marker
RECURSIVE BeforeLineComment(_)
BeforeLineComment(line) ==
    IF line = <<>> \/ Head(line) = LC THEN <<>>
    ELSE <<Head(line)>> \o BeforeLineComment(Tail(line))

\* The position of the first "*/" in line, 0 when none
RECURSIVE FindClose(_, _)
FindClose(line, pos) ==
    IF pos > Len(line) THEN 0
    ELSE IF line[pos] = BC THEN pos
    ELSE FindClose(line, pos + 1)

\* re.sub(r"/\*.*?\*/", "", line): from the left, every "/*" that a "*/"
\* follows on the line is removed up to the first such "*/"
RECURSIVE RemoveBlockComments(_)
RemoveBlockComments(line) ==
    IF line = <<>> THEN <<>>
    ELSE IF Head(line) = BO /\ FindClose(Tail(line), 1) # 0
    THEN RemoveBlockComments(
             SubSeq(Tail(line), FindClose(Tail(line), 1) + 1, Len(line) - 1))
    ELSE <<Head(line)>> \o RemoveBlockComments(Tail(line))

StripComments(line) == RemoveBlockComments(BeforeLineComment(line))

\* A "(" follows position i of line with nothing but white space between
ParenFollows(line, i) ==
    \E j \in (i + 1)..Len(line) :
        /\ line[j] = LP
        /\ \A m \in (i + 1)..(j - 1) : line[m] = WS

\* Mutant of SearchCall: the name anywhere in an identifier, whatever
\* follows it
SearchCall_Substring(call_name, line) ==
    \E i \in 1..Len(line) :
        line[i].k \in {"call", "word"} /\ line[i].id = call_name

\* re.search(rf"\b{re.escape(call_name)}\s*\(", line_stripped)
SearchCall(call_name, line) ==
    \E i \in 1..Len(line) :
        IF line[i].k = "call" THEN line[i].id = call_name
        ELSE IF line[i].k = "word"
        THEN /\ line[i].pre = "" /\ line[i].id = call_name
             /\ line[i].post = ""
             /\ ParenFollows(line, i)
        ELSE FALSE

\* line.strip() of a line of source text
RECURSIVE LStripWS(_)
LStripWS(line) ==
    IF line # <<>> /\ Head(line) = WS THEN LStripWS(Tail(line)) ELSE line

RECURSIVE RStripWS(_)
RStripWS(line) ==
    IF line # <<>> /\ line[Len(line)] = WS
    THEN RStripWS(SubSeq(line, 1, Len(line) - 1))
    ELSE line

StripWS(line) == RStripWS(LStripWS(line))

Violation(file, line, callback_name, call_info, context) ==
    [file |-> file, line |-> line, callback_name |-> callback_name,
     forbidden_call |-> call_info.name, category |-> call_info.category,
     reason |-> call_info.reason, context |-> context]

\* Mutant of RuleViolations: the loop breaks at the first line that matches
RECURSIVE RuleViolations_FirstOnly(_, _, _, _, _, _)
RuleViolations_FirstOnly(func_lines, i, func_name, start_line, call_info, file) ==
    IF i >= Len(func_lines) THEN <<>>
    ELSE IF SearchCall(call_info.name, StripComments(func_lines[i + 1]))
    THEN <<Violation(file, start_line + i, func_name, call_info,
                     StripWS(func_lines[i + 1]))>>
    ELSE RuleViolations_FirstOnly(func_lines, i + 1, func_name, start_line,
                                  call_info, file)

\* The inner for loop: the violations of one rule on func_lines[i + 1 ..],
\* where i is enumerate's index
RECURSIVE RuleViolations(_, _, _, _, _, _)
RuleViolations(func_lines, i, func_name, start_line, call_info, file) ==
    IF i >= Len(func_lines) THEN <<>>
    ELSE (IF SearchCall(call_info.name, StripComments(func_lines[i + 1]))
          THEN <<Violation(file, start_line + i, func_name, call_info,
                           StripWS(func_lines[i + 1]))>>
          ELSE <<>>)
         \o RuleViolations(func_lines, i + 1, func_name, start_line,
                           call_info, file)

\* Mutant of RulesViolations: the rules taken from the last item of the map
\* to the first
RECURSIVE RulesViolations_LastFirst(_, _, _, _, _, _)
RulesViolations_LastFirst(func_lines, rules, r, func_name, start_line, file) ==
    IF r > Len(rules) THEN <<>>
    ELSE RulesViolations_LastFirst(func_lines, rules, r + 1, func_name,
                                   start_line, file)
         \o RuleViolations(func_lines, 0, func_name, start_line, rules[r],
                           file)

\* The outer for loop, over the items of the rule map from the r-th on
RECURSIVE RulesViolations(_, _, _, _, _, _)
RulesViolations(func_lines, rules, r, func_name, start_line, file) ==
    IF r > Len(rules) THEN <<>>
    ELSE RuleViolations(func_lines, 0, func_name, start_line, rules[r], file)
         \o RulesViolations(func_lines, rules, r + 1, func_name, start_line,
                            file)

\* Mutant of check_function_for_violations: lines numbered from
\* start_line + 1
check_function_for_violations_LineOff(text, func_name, start_line, end_line, rules, file) ==
    RulesViolations(Slice(SplitLines(text, <<>>), start_line - 1, end_line),
                    rules, 1, func_name, start_line + 1, file)

check_function_for_violations(text, func_name, start_line, end_line, rules, file) ==
    RulesViolations(Slice(SplitLines(text, <<>>), start_line - 1, end_line),
                    rules, 1, func_name, start_line, file)

----------------------------------------------------------------------------
(* check_content *)

\* The for loop over the callbacks from the c-th on
RECURSIVE CallbacksViolations(_, _, _, _, _)
CallbacksViolations(text, cbs, c, rules, file) ==
    IF c > Len(cbs) THEN <<>>
    ELSE check_function_for_violations(text, cbs[c].name, cbs[c].start_line,
                                       cbs[c].end_line, rules, file)
         \o CallbacksViolations(text, cbs, c + 1, rules, file)

\* What check_content returns for a text once the rule map is loaded
check_content(text, rules, file) ==
    CallbacksViolations(text, find_callback_functions(text), 1, rules, file)

----------------------------------------------------------------------------
(* Inputs *)

\* static void a_asr(short        -- suffix convention only
SigSuffix    == Sig(TRUE, FALSE, "void", "a", "_asr", "short")
\* pascal void a_asr(StreamPtr    -- suffix and signature convention
SigBoth      == Sig(FALSE, TRUE, "void", "a", "_asr", "StreamPtr")
\* pascal void h(TPCCB            -- signature convention, last pattern
SigTPCCB     == Sig(FALSE, TRUE, "void", "h", "", "TPCCB")
\* pascal void h(StreamPtr        -- signature convention, sixth pattern
SigStream    == Sig(FALSE, TRUE, "void", "h", "", "StreamPtr")
\* static int helper(void         -- no callback
SigHelper    == Sig(TRUE, FALSE, "int", "helper", "", "void")

\* The lines source units are made of
LineLib ==
    { <<>>,                                          \* empty line
      <<SigSuffix, SEMI>>,                           \* forward declaration
      <<SigSuffix, LB>>,                             \* definition opens
      <<SigBoth, LB>>,
      <<SigTPCCB, LB, RB>>,                          \* one-line definition
      <<SigStream, LB, Call("BlockMove"), RB>>,
      <<SigHelper, LB>>,
      <<SigSuffix>>,                                 \* brace on the next line
      <<LB>>,
      <<RB>>,                                        \* a block closes
      <<WS, LB, Call("BlockMove"), SEMI, RB>>,       \* nested block
      <<WS, Call("TickCount"), SEMI>>,
      <<WS, Call("BlockMove"), LC, Call("TickCount")>>,  \* trailing comment
      <<WS, BO, Call("BlockMove"), BC, SEMI>> }      \* same-line block comment

MaxLines == 3

\* "\n".join(lines)
RECURSIVE Join(_)
Join(lines) ==
    IF Len(lines) = 0 THEN <<>>
    ELSE IF Len(lines) = 1 THEN lines[1]
    ELSE lines[1] \o <<NL>> \o Join(Tail(lines))

\* The source units of 1 .. MaxLines lines
Units ==
    { Join(ls) : ls \in UNION { [1..n -> LineLib] : n \in 1..MaxLines } }

\* The contents of the files on disk
UnitClean == Join(<< <<SigSuffix, LB>>, <<WS, SEMI>>, <<RB>> >>)
UnitOne   == <<SigBoth, LB, Call("BlockMove"), SEMI, RB>>
UnitTwo   ==
    Join(<< <<SigSuffix, LB>>, <<WS, Call("TickCount"), SEMI>>,
            <<WS, Call("TickCount"), SEMI, RB>> >>)
UnitMany  ==
    Join(<< <<SigStream, LB, Call("BlockMove"), RB>>,
            <<SigBoth, LB>>,
            <<WS, Call("TickCount"), SEMI>>,
            <<WS, Call("BlockMove"), SEMI, RB>> >>)
FileUnits == {UnitClean, UnitOne, UnitTwo, UnitMany}

\* A file of the target: readable with a text, or one read_text fails on
FileLib ==
    {[readable |-> TRUE, text |-> u] : u \in FileUnits}
        \cup {[readable |-> FALSE, text |-> <<>>]}

MaxFiles == 2

\* A file under its path
FileAt(path, f) == [path |-> path, readable |-> f.readable, text |-> f.text]

\* What a target can hold: up to MaxFiles files of distinct paths, in the
\* order the file system enumerates them
FileLists ==
    UNION { { fs \in [1..n -> {FileAt(p, f) : p \in 1..MaxFiles, f \in FileLib}] :
                \A i, j \in 1..n : i # j => fs[i].path # fs[j].path }
            : n \in 0..MaxFiles }

\* forbidden_calls.txt as shipped: comments, rules, and a malformed line
DB ==
    << <<"#", " ", "rules">>,
       <<"BlockMove", "|", "memory_ops", "|", "moves memory">>,
       <<>>,
       <<"Broken", "|", "io">>,
       <<"TickCount", "|", "timing", "|", "not interrupt safe", " ">> >>

StdinName == <<"<stdin>", 0>>
PathOf(i) == <<"file", i>>

----------------------------------------------------------------------------
(* The run of main *)

ContentMode == optContent # <<>>

\* Where check_file's caller continues
AfterUnit ==
    IF ContentMode \/ optTarget = "file" THEN "exit" ELSE "check_directory"

Clean ==
    /\ pc = "main"
    /\ idx = 0
    /\ code = <<>>
    /\ filename = StdinName
    /\ forbidden = <<>>
    /\ callbacks = <<>>
    /\ violations = <<>>
    /\ loads = 0
    /\ scanned = 0
    /\ exitCode = -1

Init ==
    /\ optContent \in {<<>>} \cup FileUnits
    /\ optTarget \in {"none", "file", "dir", "missing"}
    /\ dbExists \in BOOLEAN
    /\ db = DB
    /\ files \in FileLists
    /\ optTarget = "file" => Len(files) = 1
    /\ optTarget = "missing" => Len(files) = 0
    /\ Clean

\* Mutant of Main: a target that does not exist is walked as a directory
Main_NoTargetCheck ==
    /\ pc = "main"
    /\ IF ContentMode
       THEN /\ code' = optContent
            /\ filename' = StdinName
            /\ pc' = "check_content"
            /\ UNCHANGED <<idx, exitCode>>
       ELSE IF optTarget = "file"
       THEN /\ idx' = 1
            /\ pc' = "check_file"
            /\ UNCHANGED <<code, filename, exitCode>>
       ELSE /\ pc' = "check_directory"
            /\ UNCHANGED <<idx, code, filename, exitCode>>
    /\ UNCHANGED <<optContent, optTarget, dbExists, db, files, forbidden,
                   callbacks, violations, loads, scanned>>

\* main up to the call it dispatches to
Main ==
    /\ pc = "main"
    /\ IF ContentMode
       THEN /\ code' = optContent
            /\ filename' = StdinName
            /\ pc' = "check_content"
            /\ UNCHANGED <<idx, exitCode>>
       ELSE IF optTarget = "file"
       THEN /\ idx' = 1
            /\ pc' = "check_file"
            /\ UNCHANGED <<code, filename, exitCode>>
       ELSE IF optTarget = "dir"
       THEN /\ pc' = "check_directory"
            /\ UNCHANGED <<idx, code, filename, exitCode>>
       ELSE IF optTarget = "missing"
       THEN /\ exitCode' = 2
            /\ pc' = "done"
            /\ UNCHANGED <<idx, code, filename>>
       ELSE /\ pc' = "check_directory"
            /\ UNCHANGED <<idx, code, filename, exitCode>>
    /\ UNCHANGED <<optContent, optTarget, dbExists, db, files, forbidden,
                   callbacks, violations, loads, scanned>>

\* One turn of check_directory's for loop
CheckDirectory ==
    /\ pc = "check_directory"
    /\ IF idx < Len(files)
       THEN idx' = idx + 1 /\ pc' = "check_file"
       ELSE idx' = idx /\ pc' = "exit"
    /\ UNCHANGED <<optContent, optTarget, dbExists, db, files, code, filename,
                   forbidden, callbacks, violations, loads, scanned, exitCode>>

\* Mutant of CheckFile: a failed read ends the scan of the directory
CheckFile_StopsScan ==
    /\ pc = "check_file"
    /\ IF files[idx].readable
       THEN /\ code' = files[idx].text
            /\ filename' = PathOf(files[idx].path)
            /\ pc' = "check_content"
       ELSE /\ pc' = "exit"
            /\ UNCHANGED <<code, filename>>
    /\ UNCHANGED <<optContent, optTarget, dbExists, db, files, idx, forbidden,
                   callbacks, violations, loads, scanned, exitCode>>

\* check_file: read the text; a failed read is caught and returns []
CheckFile ==
    /\ pc = "check_file"
    /\ IF files[idx].readable
       THEN /\ code' = files[idx].text
            /\ filename' = PathOf(files[idx].path)
            /\ pc' = "check_content"
       ELSE /\ pc' = AfterUnit
            /\ UNCHANGED <<code, filename>>
    /\ UNCHANGED <<optContent, optTarget, dbExists, db, files, idx, forbidden,
                   callbacks, violations, loads, scanned, exitCode>>

\* Mutant of LoadForbiddenCalls: the rule map is loaded on the first call
\* only and kept
LoadForbiddenCalls_Cached ==
    /\ pc = "check_content"
    /\ loads' = IF loads = 0 THEN 1 ELSE loads
    /\ IF dbExists
       THEN /\ forbidden' = load_forbidden_calls(db)
            /\ pc' = "find"
            /\ UNCHANGED exitCode
       ELSE /\ exitCode' = 2
            /\ pc' = "done"
            /\ UNCHANGED forbidden
    /\ UNCHANGED <<optContent, optTarget, dbExists, db, files, idx, code,
                   filename, callbacks, violations, scanned>>

\* check_content's call of load_forbidden_calls; sys.exit(2) is no Exception,
\* so check_file does not catch it
LoadForbiddenCalls ==
    /\ pc = "check_content"
    /\ loads' = loads + 1
    /\ IF dbExists
       THEN /\ forbidden' = load_forbidden_calls(db)
            /\ pc' = "find"
            /\ UNCHANGED exitCode
       ELSE /\ exitCode' = 2
            /\ pc' = "done"
            /\ UNCHANGED forbidden
    /\ UNCHANGED <<optContent, optTarget, dbExists, db, files, idx, code,
                   filename, callbacks, violations, scanned>>

\* check_content's call of find_callback_functions
FindCallbackFunctions ==
    /\ pc = "find"
    /\ callbacks' = find_callback_functions(code)
    /\ pc' = "scan"
    /\ UNCHANGED <<optContent, optTarget, dbExists, db, files, idx, code,
                   filename, forbidden, violations, loads, scanned, exitCode>>

\* check_content's for loop, and the caller's extend of what it returns
CheckFunctions ==
    /\ pc = "scan"
    /\ violations' =
           violations \o CallbacksViolations(code, callbacks, 1, forbidden,
                                             filename)
    /\ scanned' = scanned + 1
    /\ pc' = AfterUnit
    /\ UNCHANGED <<optContent, optTarget, dbExists, db, files, idx, code,
                   filename, forbidden, callbacks, loads, exitCode>>

\* The end of main: sys.exit(1 if violations else 0)
Exit ==
    /\ pc = "exit"
    /\ exitCode' = IF violations # <<>> THEN 1 ELSE 0
    /\ pc' = "done"
    /\ UNCHANGED <<optContent, optTarget, dbExists, db, files, idx, code,
                   filename, forbidden, callbacks, violations, loads, scanned>>

Next ==
    \/ Main
    \/ CheckDirectory
    \/ CheckFile
    \/ LoadForbiddenCalls
    \/ FindCallbackFunctions
    \/ CheckFunctions
    \/ Exit

Spec == Init /\ [][Next]_vars

\* The runs of main --check-content over every source unit, the rule
\* database in place
InitContent ==
    /\ optContent \in Units \ {<<>>}
    /\ optTarget = "none"
    /\ dbExists = TRUE
    /\ db = DB
    /\ files = <<>>
    /\ Clean

NextContent ==
    \/ Main
    \/ LoadForbiddenCalls
    \/ FindCallbackFunctions
    \/ CheckFunctions
    \/ Exit

SpecContent == InitContent /\ [][NextContent]_vars

----------------------------------------------------------------------------
(* The load of a database: main --check-content over one text, with
   forbidden_calls.txt made of blank lines, comments, rules, rules of the
   same name and lines of two or four fields; a field is one token *)

DbLineLib ==
    { <<>>,
      <<" ">>,
      <<"#", "BlockMove", "|", "x", "|", "y">>,
      <<" ", "#", "rules">>,
      <<"BlockMove", "|", "memory_ops", "|", "moves memory">>,
      <<" ", "BlockMove", "|", "io", "|", "blocks", " ">>,
      <<"TickCount", "|", "timing", "|", "not interrupt safe">>,
      <<"TickCount", "|", "|">>,
      <<"BlockMove", "|", "io">>,
      <<"BlockMove", "|", "bad", "|", "b", "|", "c">>,
      <<"Delay", "|", "a", "|", "b", "|", "c">> }

MaxDbLines == 3

DbFiles == UNION { [1..n -> DbLineLib] : n \in 0..MaxDbLines }

InitLoad ==
    /\ optContent = UnitMany
    /\ optTarget = "none"
    /\ dbExists = TRUE
    /\ db \in DbFiles
    /\ files = <<>>
    /\ Clean

SpecLoad == InitLoad /\ [][NextContent]_vars

----------------------------------------------------------------------------
(* The scan of one callback: main --check-content over a callback whose body
   is made of lines with calls, comments and identifiers that contain the
   name of a rule *)

ScanLib ==
    { <<WS, Call("BlockMove"), SEMI>>,
      <<WS, Call("TickCount"), SEMI, Call("BlockMove"), SEMI>>,
      <<WS, Call("BlockMove"), Call("BlockMove"), SEMI>>,
      <<WS, SEMI, LC, Call("BlockMove")>>,
      <<WS, BO, Call("BlockMove"), BC, SEMI>>,
      <<WS, BO, Call("BlockMove"), LC, BC, SEMI>>,
      <<WS, BO, BC, Call("TickCount"), SEMI>>,
      <<WS, Word("x", "BlockMove", ""), LP>>,
      <<WS, Word("", "BlockMove", "2"), LP>>,
      <<WS, Word("x", "BlockMove", "2"), LP>>,
      <<WS, Word("", "BlockMove", ""), SEMI, LP>>,
      <<WS, Word("", "BlockMove", ""), WS, LP>>,
      <<WS, Word("", "BlockMove", ""), BO, BC, LP>> }

MaxBody == 2

\* A callback of 1 .. MaxBody body lines between its signature line and the
\* line of its closing brace
ScanUnits ==
    { Join(<< <<SigBoth, LB>> >> \o body \o << <<RB>> >>) :
        body \in UNION { [1..n -> ScanLib] : n \in 1..MaxBody } }

InitScan ==
    /\ optContent \in ScanUnits
    /\ optTarget = "none"
    /\ dbExists = TRUE
    /\ db = DB
    /\ files = <<>>
    /\ Clean

SpecScan == InitScan /\ [][NextContent]_vars

----------------------------------------------------------------------------
(* What the claims speak of, stated on the text itself *)

\* The 1-based line of position pos
LineOf(text, pos) == Cardinality({m \in 1..(pos - 1) : text[m] = NL}) + 1

\* Opening minus closing braces among positions f .. j
Depth(text, f, j) ==
    Cardinality({m \in f..j : text[m] = LB})
        - Cardinality({m \in f..j : text[m] = RB})

\* The "}" at j closes the "{" at f
Closes(text, f, j) ==
    /\ j > f
    /\ text[j] = RB
    /\ Depth(text, f, j) = 0
    /\ \A m \in f..(j - 1) : Depth(text, f, m) > 0

HasClose(text, f) == \E j \in (f + 1)..Len(text) : Closes(text, f, j)
CloseOf(text, f) == CHOOSE j \in (f + 1)..Len(text) : Closes(text, f, j)

\* f is the first "{" at or after pos
IsFirstOpen(text, pos, f) ==
    /\ f \in pos..Len(text)
    /\ text[f] = LB
    /\ \A m \in pos..(f - 1) : text[m] # LB

HasOpen(text, pos) == \E f \in pos..Len(text) : text[f] = LB
FirstOpen(text, pos) == CHOOSE f \in pos..Len(text) : IsFirstOpen(text, pos, f)

\* The "{" at f opens the body of the signature at i
OpensBody(text, i, f) ==
    /\ f \in (i + 1)..Len(text)
    /\ text[f] = LB
    /\ \A m \in (i + 1)..(f - 1) : text[m] \in {NL, WS}

\* The signature at i ends a forward declaration
IsPrototype(text, i) ==
    \E f \in (i + 1)..Len(text) :
        /\ text[f] = SEMI
        /\ \A m \in (i + 1)..(f - 1) : text[m] \in {NL, WS}

SigPositions(text) == {i \in 1..Len(text) : text[i].k = "sig"}

\* Some convention takes the signature at i as a callback's
Matched(text, i) ==
    \E p \in 1..Len(patterns) : PatternMatches(patterns[p], text[i])

\* The occurrences of a callback name that yield a span
Occurrences(text, name) ==
    {i \in SigPositions(text) :
        Matched(text, i) /\ FuncName(text[i]) = name /\ HasOpen(text, i)}

\* The span of the occurrence at i: from its line to the line of the brace
\* that closes its first "{", or to the last line when none does
SpanAt(text, i) ==
    [name       |-> FuncName(text[i]),
     start_line |-> LineOf(text, i),
     end_line   |-> IF HasClose(text, FirstOpen(text, i))
                    THEN LineOf(text, CloseOf(text, FirstOpen(text, i)))
                    ELSE LineOf(text, Len(text) + 1)]

\* Every brace of the text is paired, every outermost "{" opens the body of
\* a definition, and every signature is a forward declaration or opens a
\* definition
WellFormed(text) ==
    /\ Depth(text, 1, Len(text)) = 0
    /\ \A j \in 1..Len(text) : Depth(text, 1, j) >= 0
    /\ \A f \in 1..Len(text) :
           (text[f] = LB /\ Depth(text, 1, f) = 1) =>
               \E i \in SigPositions(text) : OpensBody(text, i, f)
    /\ \A i \in SigPositions(text) :
           IsPrototype(text, i) \/ \E f \in 1..Len(text) : OpensBody(text, i, f)

\* (pattern index, position) pairs under which a name is matched
MatchKeys(text, name) ==
    {k \in (1..Len(patterns)) \X (1..Len(text)) :
        /\ PatternMatches(patterns[k[1]], text[k[2]])
        /\ FuncName(text[k[2]]) = name
        /\ HasOpen(text, k[2])}

LexLess(a, b) == a[1] < b[1] \/ (a[1] = b[1] /\ a[2] < b[2])

\* The first match of a name in the order the code matches
FirstMatch(text, name) ==
    CHOOSE k \in MatchKeys(text, name) :
        \A o \in MatchKeys(text, name) : o = k \/ LexLess(k, o)

Min(S) == CHOOSE x \in S : \A y \in S : x <= y

\* The spans of the unit are computed
Located == pc \in {"scan", "exit", "done"} /\ exitCode # 2

TargetRun == ~ContentMode /\ optTarget # "none"

----------------------------------------------------------------------------
(* Claims on the run of main, checked under Spec *)

\* C1: a run with a target path that is neither a file nor a directory does
\* no load and no scan and ends with exit code 2; a run over an existing
\* target whose scan completes ends with exit code 0 when it found no
\* violation and with 1 when it found some, and ends with 2 only when the
\* scan was aborted for want of the rule database.
C1_ExitCodes ==
    TargetRun =>
        /\ optTarget = "missing" =>
               /\ loads = 0 /\ scanned = 0 /\ idx = 0 /\ violations = <<>>
               /\ pc = "done" => exitCode = 2
        /\ (optTarget # "missing" /\ pc = "done") =>
               /\ exitCode \in {0, 1, 2}
               /\ exitCode = 2 => ~dbExists
               /\ exitCode = 0 => violations = <<>>
               /\ exitCode = 1 => violations # <<>>

\* C1 witness: a directory run that found violations has ended with 1
C1_Witness ==
    /\ TargetRun /\ optTarget = "dir" /\ pc = "done"
    /\ exitCode = 1 /\ Len(violations) >= 2 /\ scanned = 2

\* C2: with the rule database missing, a content, single-file or directory
\* run ends with exit code 2 and no violations, never with 0 or 1.
C2_MissingDatabaseAborts ==
    (/\ pc = "done"
     /\ ~dbExists
     /\ (ContentMode \/ optTarget \in {"file", "dir"}))
        => (exitCode = 2 /\ violations = <<>>)

\* The units a completed run has passed to check_content
UnitsOfRun ==
    IF ContentMode THEN 1
    ELSE Cardinality({i \in 1..Len(files) : files[i].readable})

----------------------------------------------------------------------------
(* Claims on one source unit, checked under SpecContent *)

\* C3: every violation of a scan names a span the locator produced for the
\* same text whose lines contain the violation's line, and a rule of the
\* rule map with that rule's category and reason.
C3_ViolationsAttributed ==
    pc \in {"exit", "done"} =>
        \A n \in 1..Len(violations) :
            LET v == violations[n]
                spans == find_callback_functions(code)
            IN  /\ v.file = filename
                /\ \E c \in 1..Len(spans) :
                       /\ spans[c].name = v.callback_name
                       /\ spans[c].start_line <= v.line
                       /\ v.line <= spans[c].end_line
                /\ \E r \in 1..Len(forbidden) :
                       /\ forbidden[r].name = v.forbidden_call
                       /\ forbidden[r].category = v.category
                       /\ forbidden[r].reason = v.reason

\* C3 witness: a scan has attributed violations to two callbacks, one of
\* them on the last line of its span
C3_Witness ==
    /\ pc = "done"
    /\ \E m, n \in 1..Len(violations) :
           /\ violations[m].callback_name # violations[n].callback_name
           /\ \E c \in 1..Len(callbacks) :
                  /\ callbacks[c].name = violations[n].callback_name
                  /\ callbacks[c].end_line = violations[n].line
                  /\ callbacks[c].start_line < violations[n].line

\* The call sites of registered names
RegisteredCalls(text, rules) ==
    {k \in 1..Len(text) :
        /\ text[k].k = "call"
        /\ \E r \in 1..Len(rules) : rules[r].name = text[k].id}

\* No comment marker stands before position k on its line
NoCommentBefore(text, k) ==
    \A m \in 1..(k - 1) :
        text[m] \in {LC, BO} => \E n \in (m + 1)..(k - 1) : text[n] = NL

\* The unit holds one signature, the definition of a callback named by
\* suffix, at i, and one call site of a registered name, at k, in the body
\* of that definition and not commented out
OneCallbackOneCall(text, rules, i, k) ==
    /\ SigPositions(text) = {i}
    /\ RegisteredCalls(text, rules) = {k}
    /\ \E p \in 1..Len(patterns) :
           patterns[p].conv = "suffix" /\ PatternMatches(patterns[p], text[i])
    /\ \E f \in 1..Len(text) :
           /\ OpensBody(text, i, f)
           /\ HasClose(text, f)
           /\ f < k
           /\ k < CloseOf(text, f)
    /\ NoCommentBefore(text, k)

C5_SpansAreDefinitions ==
    (Located /\ WellFormed(code)) =>
        \A c \in 1..Len(callbacks) :
            \E i \in SigPositions(code) :
                /\ FuncName(code[i]) = callbacks[c].name
                /\ LineOf(code, i) = callbacks[c].start_line
                /\ \E f \in 1..Len(code) :
                       /\ OpensBody(code, i, f)
                       /\ HasClose(code, f)
                       /\ LineOf(code, CloseOf(code, f)) = callbacks[c].end_line

\* C6: a span whose first "{" after the signature match has a matching "}"
\* ends on the line of that "}", whatever blocks the body nests.
C6_EndIsMatchingClose ==
    Located =>
        \A c \in 1..Len(callbacks) :
            \E i \in Occurrences(code, callbacks[c].name) :
                /\ LineOf(code, i) = callbacks[c].start_line
                /\ HasClose(code, FirstOpen(code, i)) =>
                       callbacks[c].end_line =
                           LineOf(code, CloseOf(code, FirstOpen(code, i)))

\* C6 witness: a span whose body nests a block that closes on an earlier
\* line than the body
C6_Witness ==
    /\ Located
    /\ \E c \in 1..Len(callbacks) :
           \E i \in Occurrences(code, callbacks[c].name) :
               LET f == FirstOpen(code, i)
               IN  /\ LineOf(code, i) = callbacks[c].start_line
                   /\ HasClose(code, f)
                   /\ callbacks[c].end_line = LineOf(code, CloseOf(code, f))
                   /\ \E m \in (f + 1)..(CloseOf(code, f) - 1) :
                          /\ code[m] = RB
                          /\ LineOf(code, m) < LineOf(code, CloseOf(code, f))

\* C7: no two spans of the result carry the same name.
C7_DistinctNames ==
    Located =>
        \A a, b \in 1..Len(callbacks) :
            a # b => callbacks[a].name # callbacks[b].name

\* C7 witness: a definition that the suffix convention and a signature
\* convention both match, defined twice, has yielded one span
C7_Witness ==
    /\ Located
    /\ Len(callbacks) = 1
    /\ \E i, j \in Occurrences(code, callbacks[1].name) :
           /\ i # j
           /\ \E p, q \in 1..Len(patterns) :
                  /\ patterns[p].conv = "suffix"
                  /\ patterns[q].conv = "signature"
                  /\ PatternMatches(patterns[p], code[i])
                  /\ PatternMatches(patterns[q], code[i])

\* C8 as stated: the span kept for a name is the span of the occurrence of
\* that name that comes first in the text.
C8_KeepsFirstInSource ==
    Located =>
        \A c \in 1..Len(callbacks) :
            callbacks[c] =
                SpanAt(code, Min(Occurrences(code, callbacks[c].name)))

\* C8 as amended: the span kept for a name is the span of its first match
\* in match order: of the occurrences that the earliest matching pattern of
\* the table matches, the first in the text.
C8_KeepsFirstMatch ==
    Located =>
        \A c \in 1..Len(callbacks) :
            callbacks[c] =
                SpanAt(code, FirstMatch(code, callbacks[c].name)[2])

\* C8 witness: a name matched on two lines, the span kept not that of the
\* first line
C8_Witness ==
    /\ Located
    /\ \E c \in 1..Len(callbacks) :
           \E i \in Occurrences(code, callbacks[c].name) :
               LineOf(code, i) < callbacks[c].start_line

\* C9 as stated: the spans are in the order of their signatures in the
\* text.
C9_SourceOrder ==
    Located =>
        \A a, b \in 1..Len(callbacks) :
            a < b => callbacks[a].start_line <= callbacks[b].start_line

\* C9 as amended: the spans are in match order: by the table index of the
\* first pattern that matches their name, and by position in the text among
\* the names first matched by the same pattern.
C9_MatchOrder ==
    Located =>
        \A a, b \in 1..Len(callbacks) :
            a < b => LexLess(FirstMatch(code, callbacks[a].name),
                             FirstMatch(code, callbacks[b].name))

\* C9 witness: two spans, the first from a later line than the second
C9_Witness ==
    /\ Located
    /\ Len(callbacks) = 2
    /\ callbacks[1].start_line > callbacks[2].start_line

----------------------------------------------------------------------------
(* Claims on unreadable files and on the order of a directory's result,
   checked under Spec *)

\* C11 as stated: a single-file run whose target exists but cannot be read
\* ends with a status other than the success exit code 0.
C11_ReadFailureReported ==
    (TargetRun /\ optTarget = "file" /\ ~files[1].readable /\ pc = "done")
        => exitCode # 0

\* What check_file returns for a file: the violations of its text when
\* the read succeeds, none when it fails
FileResult(f) ==
    IF f.readable
    THEN check_content(f.text, load_forbidden_calls(db), PathOf(f.path))
    ELSE <<>>

\* The results of the first k files of a list, joined in the order of the
\* list
RECURSIVE FilesResult(_, _)
FilesResult(fs, k) ==
    IF k = 0 THEN <<>>
    ELSE FilesResult(fs, k - 1) \o FileResult(fs[k])

DirectoryRun == TargetRun /\ optTarget = "dir" /\ dbExists

\* C12: in a directory run with the rule database present an unreadable
\* file adds nothing and stops nothing: whenever the scan is between two
\* files the result so far is the joined results of the files visited, at
\* the end it is the joined results of all the files, each readable file
\* has been scanned, and the exit code is 1 exactly when some readable file
\* has a violation.
C12_UnreadableFileSkipped ==
    DirectoryRun =>
        /\ pc = "check_directory" => violations = FilesResult(files, idx)
        /\ pc = "done" =>
               /\ violations = FilesResult(files, Len(files))
               /\ scanned = Cardinality({i \in 1..Len(files) : files[i].readable})
               /\ exitCode =
                      IF \E i \in 1..Len(files) : FileResult(files[i]) # <<>>
                      THEN 1 ELSE 0

\* C12 witness: a directory run has ended whose first file could not be
\* read and whose second file's violations are the result
C12_Witness ==
    /\ DirectoryRun
    /\ pc = "done"
    /\ Len(files) = 2
    /\ ~files[1].readable
    /\ files[2].readable
    /\ violations # <<>>
    /\ violations = FileResult(files[2])
    /\ exitCode = 1

\* The lists that hold the same files as fs, in any order of enumeration
Reorderings(fs) ==
    {gs \in FileLists :
        /\ Len(gs) = Len(fs)
        /\ {gs[i] : i \in 1..Len(gs)} = {fs[i] : i \in 1..Len(fs)}}

\* C13 as stated: the result of a directory run is the same sequence for
\* every order in which the same files can be enumerated.
C13_OrderIndependent ==
    (DirectoryRun /\ pc = "done") =>
        \A gs \in Reorderings(files) :
            violations = FilesResult(gs, Len(gs))

\* The text a violation was found in, and the place of its file in the
\* visit order (1 for the text of --check-content)
FileIndex(v) ==
    IF ContentMode THEN 1
    ELSE CHOOSE f \in 1..Len(files) : PathOf(files[f].path) = v.file

UnitText(v) == IF ContentMode THEN optContent ELSE files[FileIndex(v)].text

\* The place of a violation's callback in what Locate returns for its text,
\* and of its rule in the items of the rule map
SpanIndex(v) ==
    CHOOSE c \in 1..Len(find_callback_functions(UnitText(v))) :
        find_callback_functions(UnitText(v))[c].name = v.callback_name

RuleIndex(v) ==
    CHOOSE r \in 1..Len(load_forbidden_calls(db)) :
        load_forbidden_calls(db)[r].name = v.forbidden_call

OrderKey(v) == <<FileIndex(v), SpanIndex(v), RuleIndex(v), v.line>>

\* a comes before b, comparing the components from the first on
KeyLess(a, b) ==
    \E k \in 1..Len(a) :
        a[k] < b[k] /\ \A j \in 1..(k - 1) : a[j] = b[j]

\* C20: the violations of a result are ordered by file in visit order,
\* within a file by callback span in the order Locate returns the spans,
\* within a span by rule in the insertion order of the rule map, and
\* within a rule by ascending line; so the violations of one file are
\* contiguous.
C20_ResultOrder ==
    \A v \in 1..(Len(violations) - 1) :
        KeyLess(OrderKey(violations[v]), OrderKey(violations[v + 1]))

\* C20 witness: a directory run over two files has ended with a result
\* that goes from a later line to an earlier line inside the first file,
\* once between two rules of one span and once between two spans, and then
\* on to the second file
C20_Witness ==
    /\ DirectoryRun
    /\ pc = "done"
    /\ \E u, v, w \in 1..(Len(violations) - 1) :
           /\ FileIndex(violations[u]) = 1
           /\ FileIndex(violations[u + 1]) = 1
           /\ SpanIndex(violations[u]) = SpanIndex(violations[u + 1])
           /\ RuleIndex(violations[u]) < RuleIndex(violations[u + 1])
           /\ violations[u].line > violations[u + 1].line
           /\ FileIndex(violations[v]) = 1
           /\ FileIndex(violations[v + 1]) = 1
           /\ SpanIndex(violations[v]) < SpanIndex(violations[v + 1])
           /\ violations[v].line > violations[v + 1].line
           /\ FileIndex(violations[w]) = 1
           /\ FileIndex(violations[w + 1]) = 2

----------------------------------------------------------------------------
(* Claims on the scan of a callback, checked under SpecScan *)

\* The scan of the unit is over and its violations are the result
Scanned == pc \in {"exit", "done"} /\ exitCode # 2

\* The violations of the result that name a callback, a rule and a line
Reports(callback_name, call_name, line) ==
    {v \in 1..Len(violations) :
        /\ violations[v].callback_name = callback_name
        /\ violations[v].forbidden_call = call_name
        /\ violations[v].line = line}

\* C14: the scan of a span returns one violation for every rule and every
\* line of the span whose comment-stripped text matches the rule's pattern,
\* and none for any other pair; every violation of the result is of a
\* located span, a rule of the map and a line of that span.
C14_OnePerRuleAndLine ==
    Scanned =>
        LET lines == SplitLines(code, <<>>)
        IN  /\ \A c \in 1..Len(callbacks) :
                   \A r \in 1..Len(forbidden) :
                       \A l \in callbacks[c].start_line..callbacks[c].end_line :
                           Cardinality(Reports(callbacks[c].name,
                                               forbidden[r].name, l))
                               = IF SearchCall(forbidden[r].name,
                                               StripComments(lines[l]))
                                 THEN 1 ELSE 0
            /\ \A v \in 1..Len(violations) :
                   \E c \in 1..Len(callbacks) :
                       /\ violations[v].callback_name = callbacks[c].name
                       /\ violations[v].line \in
                              callbacks[c].start_line..callbacks[c].end_line
                       /\ \E r \in 1..Len(forbidden) :
                              violations[v].forbidden_call = forbidden[r].name

\* C14 witness: the same forbidden call on two lines of one callback has
\* given two violations
C14_Witness ==
    /\ Scanned
    /\ \E v, w \in 1..Len(violations) :
           /\ violations[v].callback_name = violations[w].callback_name
           /\ violations[v].forbidden_call = violations[w].forbidden_call
           /\ violations[v].context = violations[w].context
           /\ violations[v].line # violations[w].line

\* Token i of a line is the call of call_name
CallOf(line, i, call_name) ==
    IF line[i].k = "call" THEN line[i].id = call_name
    ELSE IF line[i].k = "word"
    THEN /\ line[i].pre = "" /\ line[i].id = call_name /\ line[i].post = ""
         /\ ParenFollows(line, i)
    ELSE FALSE

\* Position i of a line is after its first "//", or inside a block comment
\* that is opened before i and closed after i on the line
AfterLineComment(line, i) == \E j \in 1..(i - 1) : line[j] = LC

InBlockComment(line, i) ==
    /\ \E j \in 1..(i - 1) :
           line[j] = BO /\ \A m \in (j + 1)..(i - 1) : line[m] # BC
    /\ \E j \in (i + 1)..Len(line) : line[j] = BC

\* call_name is called on the line, and only in comments
OnlyInComments(line, call_name) ==
    /\ \E i \in 1..Len(line) : CallOf(line, i, call_name)
    /\ \A i \in 1..Len(line) :
           CallOf(line, i, call_name) =>
               (AfterLineComment(line, i) \/ InBlockComment(line, i))

\* C15 as stated: a line of a callback on which the call of a rule's name
\* appears only after the first "//" or inside a block comment opened and
\* closed on that line gives no violation of that rule on that line.
C15_CommentsSuppress ==
    Scanned =>
        LET lines == SplitLines(code, <<>>)
        IN  \A c \in 1..Len(callbacks) :
                \A r \in 1..Len(forbidden) :
                    \A l \in callbacks[c].start_line..callbacks[c].end_line :
                        OnlyInComments(lines[l], forbidden[r].name)
                            => Reports(callbacks[c].name,
                                       forbidden[r].name, l) = {}

\* call_name is spelled on the line inside a longer identifier, or as an
\* identifier that no "(" follows
NameNotCalled(line, call_name) ==
    \E i \in 1..Len(line) :
        /\ line[i].k = "word"
        /\ line[i].id = call_name
        /\ ~CallOf(line, i, call_name)

\* C18: a rule is reported on a line only when the comment-stripped line
\* holds a call site of the whole identifier: the name from an identifier
\* boundary to an identifier boundary, then optional white space and "(".
\* A line that holds the name only as the tail, the interior or the head of
\* a longer identifier, or with no "(" after it, gives no violation.
C18_WholeIdentifierCallSite ==
    Scanned =>
        LET lines == SplitLines(code, <<>>)
        IN  \A c \in 1..Len(callbacks) :
                \A r \in 1..Len(forbidden) :
                    \A l \in callbacks[c].start_line..callbacks[c].end_line :
                        Reports(callbacks[c].name, forbidden[r].name, l) # {}
                            => \E i \in 1..Len(StripComments(lines[l])) :
                                   CallOf(StripComments(lines[l]), i,
                                          forbidden[r].name)

\* C18 witness: a callback was scanned with a line that spells a rule's
\* name inside a longer identifier before "(" and is not reported, and a
\* line that calls it and is reported
C18_Witness ==
    /\ Scanned
    /\ violations # <<>>
    /\ LET lines == SplitLines(code, <<>>)
       IN  \E c \in 1..Len(callbacks) :
               \E l \in callbacks[c].start_line..callbacks[c].end_line :
                   /\ NameNotCalled(lines[l], "BlockMove")
                   /\ \E i \in 1..Len(lines[l]) :
                          lines[l][i].k = "word" /\ lines[l][i].pre # ""
                   /\ Reports(callbacks[c].name, "BlockMove", l) = {}

----------------------------------------------------------------------------
(* Claims on line numbers, checked under SpecContent *)

\* C19: for every text, with balanced braces or not, the brace scan of
\* every match ends inside the text, every located span satisfies
\* 1 <= start_line <= end_line <= number of lines of the text, and the
\* line of every violation is a line of the text.
C19_LinesWithinText ==
    LET lines == SplitLines(code, <<>>)
    IN  /\ Located =>
               /\ \A c \in 1..Len(callbacks) :
                      /\ 1 <= callbacks[c].start_line
                      /\ callbacks[c].start_line <= callbacks[c].end_line
                      /\ callbacks[c].end_line <= Len(lines)
               /\ \A i \in 1..Len(code) :
                      (code[i].k = "sig" /\ FindBrace(code, i) # 0) =>
                          FuncEnd(code, FindBrace(code, i)) \in
                              FindBrace(code, i)..Len(code)
        /\ Scanned =>
               \A v \in 1..Len(violations) :
                   violations[v].line \in 1..Len(lines)

\* C19 witness: a callback whose body is never closed was scanned to the
\* last line of the text and a violation was found in it
C19_Witness ==
    /\ Scanned
    /\ violations # <<>>
    /\ \E c \in 1..Len(callbacks) :
           /\ callbacks[c].end_line = Len(SplitLines(code, <<>>))
           /\ \E i \in Occurrences(code, callbacks[c].name) :
                  ~HasClose(code, FirstOpen(code, i))

----------------------------------------------------------------------------
(* Claims on the load of the rule database, checked under SpecLoad *)

\* The rule map of the run is loaded
Loaded == pc \in {"find", "scan", "exit", "done"} /\ exitCode # 2

\* The first token of a database line that is not white space, 0 when the
\* line is blank
FirstText(raw) ==
    IF \A i \in 1..Len(raw) : raw[i] = " " THEN 0
    ELSE CHOOSE i \in 1..Len(raw) :
             raw[i] # " " /\ \A j \in 1..(i - 1) : raw[j] = " "

Bars(raw) == {i \in 1..Len(raw) : raw[i] = "|"}

\* A line that is not blank, not a comment, and of exactly three fields
WellFormedRule(raw) ==
    /\ FirstText(raw) # 0
    /\ raw[FirstText(raw)] # "#"
    /\ Cardinality(Bars(raw)) = 2

\* The text of the field of a well-formed line that starts at position i
FieldAt(raw, i) ==
    IF i > Len(raw) \/ raw[i] \in {"|", " "} THEN "" ELSE raw[i]

NameOf(raw) == FieldAt(raw, FirstText(raw))
CategoryOf(raw) == FieldAt(raw, Min(Bars(raw)) + 1)
ReasonOf(raw) == FieldAt(raw, Min(Bars(raw) \ {Min(Bars(raw))}) + 1)

WellFormedLines == {l \in 1..Len(db) : WellFormedRule(db[l])}

\* C16: the load goes over blank lines, comment lines and lines that do not
\* have exactly three fields without failing, and the names of the loaded
\* map are exactly the names of the well-formed lines of the database.
C16_MalformedLinesSkipped ==
    /\ Loaded =>
           {forbidden[i].name : i \in 1..Len(forbidden)}
               = {NameOf(db[l]) : l \in WellFormedLines}
    /\ pc \in {"find", "scan", "exit"} => exitCode = -1
    /\ pc = "done" => exitCode \in {0, 1}

\* C16 witness: a database of a comment, a line of the wrong number of
\* fields and a rule was loaded into a map of that one rule
C16_Witness ==
    /\ Loaded
    /\ Len(forbidden) = 1
    /\ \E a, b, c \in 1..Len(db) :
           /\ FirstText(db[a]) # 0 /\ db[a][FirstText(db[a])] = "#"
           /\ FirstText(db[b]) # 0 /\ db[b][FirstText(db[b])] # "#"
           /\ Cardinality(Bars(db[b])) # 2
           /\ WellFormedRule(db[c])

\* C17: the map holds one entry for every name of a well-formed line, with
\* the category and the reason of the last well-formed line of that name;
\* lines of that name that are not well-formed leave it as it is.
C17_LastRuleWins ==
    Loaded =>
        \A l \in WellFormedLines :
            LET same == {m \in WellFormedLines : NameOf(db[m]) = NameOf(db[l])}
                last == CHOOSE m \in same : \A n \in same : n <= m
                held == {i \in 1..Len(forbidden) :
                            forbidden[i].name = NameOf(db[l])}
            IN  /\ Cardinality(held) = 1
                /\ \A i \in held :
                       /\ forbidden[i].category = CategoryOf(db[last])
                       /\ forbidden[i].reason = ReasonOf(db[last])

\* C17 witness: two rules of one name and different categories were
\* loaded, then a line of that name with too many or too few fields, and
\* the entry is that of the second rule
C17_Witness ==
    /\ Loaded
    /\ Len(db) = 3
    /\ WellFormedRule(db[1])
    /\ WellFormedRule(db[2])
    /\ NameOf(db[1]) = NameOf(db[2])
    /\ CategoryOf(db[1]) # CategoryOf(db[2])
    /\ ~WellFormedRule(db[3])
    /\ Bars(db[3]) # {}
    /\ FieldAt(db[3], 1) = NameOf(db[1])
    /\ Len(forbidden) = 1
    /\ forbidden[1].category = CategoryOf(db[2])

====
